---- MODULE Spec2Model ----
(***************************************************************************)
(* A model of worlds/Files.py: the handler registry (AutoPatchRegister),   *)
(* the container envelope (APContainer, APPatch) and the delta patch       *)
(* (APDeltaPatch) with its class-level base cache and the process-wide     *)
(* write semaphore.                                                        *)
(*                                                                         *)
(* Python strings that are inspected character by character (file names    *)
(* and file endings) are sequences of one-character strings; the empty     *)
(* string is <<>>.  A Python dict is a sequence of <<key, value>> pairs in *)
(* insertion order.                                                        *)
(***************************************************************************)
EXTENDS Integers, Sequences, FiniteSets, TLC

VARIABLES
    classes,       \* the handler classes constructed so far, in order
    patch_types,   \* AutoPatchRegister.patch_types  (game -> class)
    file_endings,  \* AutoPatchRegister.file_endings (ending -> class)
    declErr,       \* the outcome of the last class statement
    self,          \* the container instance the caller holds
    fs,            \* the file system: path -> file
    source_data,   \* the class attribute source_data of each delta class
    last,          \* the last call made and the exception it raised, if any
    nobj,          \* how many instances the caller has constructed
    origin,        \* history: the instance and patched file the archive at
                   \* ZipPath was last written from by a successful write()
    cpu_count,     \* what os.cpu_count() returned at import (0: None)
    sem,           \* the value of the module's semaphore
    pc,            \* where each thread is in its call
    th,            \* each thread's call in progress: the method, the class,
                   \* the exception on its way out, and whether hasattr
                   \* found source_data
    ncalls,        \* how many calls the threads have started
    nderive        \* how often get_source_data of each class has been run

regvars == <<classes, patch_types, file_endings, declErr>>

iovars == <<self, fs, source_data, last, nobj, origin>>

thvars == <<cpu_count, sem, pc, th, ncalls, nderive>>

vars == <<regvars, iovars, thvars>>

----------------------------------------------------------------------------
(* Bounds *)

\* how many class statements a run executes
MaxDecl == 3
\* the longest file name looked up
MaxNameLen == 3
\* how many container instances the caller constructs in a run
MaxObjects == 2
\* how many threads call write() and get_source_data_with_cache()
NumThreads == 2
\* how many calls the threads start in a run
MaxCalls == 2
\* the largest number of processing units os.cpu_count() reports
MaxCpu == 2
\* the same, where only the size of the semaphore is looked at
MaxUnits == 5
Chars == {"a", "b"}
Games == {"g1", "g2"}

RECURSIVE StringsOfLen(_)
StringsOfLen(n) ==
    IF n = 0 THEN {<<>>}
    ELSE {Append(s, c) : s \in StringsOfLen(n - 1), c \in Chars}

StringsUpTo(n) == UNION {StringsOfLen(k) : k \in 0..n}

FileNames == StringsUpTo(MaxNameLen)
\* the file endings class statements declare: "", "a", "b" and "ba"
\* ("a" is a trailing match of every name "ba" is a trailing match of)
Endings == {<<>>, <<"a">>, <<"b">>, <<"b", "a">>}

----------------------------------------------------------------------------
(* Python dict: insertion-ordered; assigning an existing key keeps its place *)

DictKeys(d) == {d[i][1] : i \in 1..Len(d)}

DictHas(d, k) == \E i \in 1..Len(d) : d[i][1] = k

DictGet(d, k) == d[CHOOSE i \in 1..Len(d) : d[i][1] = k][2]

DictSet(d, k, v) ==
    IF DictHas(d, k)
    THEN [i \in 1..Len(d) |-> IF d[i][1] = k THEN <<k, v>> ELSE d[i]]
    ELSE Append(d, <<k, v>>)

----------------------------------------------------------------------------
(* AutoPatchRegister *)

\* str.endswith
EndsWith(file, ending) ==
    /\ Len(ending) <= Len(file)
    /\ SubSeq(file, Len(file) - Len(ending) + 1, Len(file)) = ending

None == "None"

\* get_handler's None; classes are numbered from 1
NoHandler == 0

\* get_handler that keeps looking after a match and so returns the last one
RECURSIVE HandlerLoopLast(_, _, _)
HandlerLoopLast(d, i, file) ==
    IF i < 1 THEN NoHandler
    ELSE IF EndsWith(file, d[i][1]) THEN d[i][2]
    ELSE HandlerLoopLast(d, i - 1, file)

GetHandlerLast(d, file) == HandlerLoopLast(d, Len(d), file)

\* the for loop of get_handler over file_endings.items(), from position i
RECURSIVE HandlerLoop(_, _, _)
HandlerLoop(d, i, file) ==
    IF i > Len(d) THEN NoHandler
    ELSE IF EndsWith(file, d[i][1]) THEN d[i][2]
    ELSE HandlerLoop(d, i + 1, file)

GetHandler(d, file) == HandlerLoop(d, 1, file)

get_handler(file) == GetHandler(file_endings, file)

\* The namespace (dct) of a class statement, as far as __new__ reads it:
\* whether it binds "game" and "patch_file_ending", and to what.
Dcts ==
    {[hasGame |-> FALSE, game |-> None, hasEnding |-> he, ending |-> e] :
        he \in BOOLEAN, e \in {<<>>, <<"a">>}}
    \cup
    {[hasGame |-> TRUE, game |-> g, hasEnding |-> TRUE, ending |-> e] :
        g \in Games, e \in Endings}
    \cup
    {[hasGame |-> TRUE, game |-> g, hasEnding |-> FALSE, ending |-> <<>>] :
        g \in Games}

\* The file ending a class declares: its own, or the one it inherits from
\* APDeltaPatch (patch_file_ending = "").
DeclaredEnding(c) == IF classes[c].hasEnding THEN classes[c].ending ELSE <<>>

\* AutoPatchRegister.__new__: the class is constructed first; with a game
\* in dct it is entered in patch_types, then the ending is looked up in
\* dct (KeyError when dct has none) and checked, then it is entered in
\* file_endings.
Declare(dct) ==
    /\ Len(classes) < MaxDecl
    /\ LET new_class == Len(classes) + 1 IN
       /\ classes' = Append(classes, dct)
       /\ IF dct.hasGame
          THEN /\ patch_types' = DictSet(patch_types, dct.game, new_class)
               /\ IF ~dct.hasEnding
                  THEN /\ declErr' = "KeyError"
                       /\ UNCHANGED file_endings
                  ELSE IF dct.ending = <<>>
                  THEN /\ declErr' = "Exception"
                       /\ UNCHANGED file_endings
                  ELSE /\ file_endings' =
                              DictSet(file_endings, dct.ending, new_class)
                       /\ declErr' = "ok"
          ELSE /\ declErr' = "ok"
               /\ UNCHANGED <<patch_types, file_endings>>
    /\ UNCHANGED <<iovars, thvars>>

DeclareClass == \E dct \in Dcts : Declare(dct)

RegStart ==
    /\ classes = <<>>
    /\ patch_types = <<>>
    /\ file_endings = <<>>
    /\ declErr = "ok"

----------------------------------------------------------------------------
(* Python values, JSON and exceptions                                      *)
(*                                                                         *)
(* A Python value is a tagged tuple.  A str is a sequence of text pieces   *)
(* (the empty str is PyStr(<<>>)), so that an f-string is a concatenation. *)

PyNone == <<"None">>
PyInt(n) == <<"int", n>>
PyStr(s) == <<"str", s>>
PyList(xs) == <<"list", xs>>
PyTuple(xs) == <<"tuple", xs>>
PyDict(f) == <<"dict", f>>

\* json.dumps of one value: None -> null, int -> number, str -> string,
\* list and tuple -> array; anything else is not serializable
RECURSIVE Serializable(_)
Serializable(v) ==
    CASE v[1] \in {"None", "int", "str"} -> TRUE
      [] v[1] \in {"list", "tuple"} ->
            \A i \in 1..Len(v[2]) : Serializable(v[2][i])
      [] OTHER -> FALSE

RECURSIVE JsonEncode(_)
JsonEncode(v) ==
    CASE v[1] = "None" -> <<"null">>
      [] v[1] = "int" -> <<"number", v[2]>>
      [] v[1] = "str" -> <<"string", v[2]>>
      [] v[1] \in {"list", "tuple"} ->
            <<"array", [i \in 1..Len(v[2]) |-> JsonEncode(v[2][i])]>>

\* json.load of one value: null -> None, number -> int, string -> str,
\* array -> list, object -> dict
RECURSIVE JsonDecode(_)
JsonDecode(j) ==
    CASE j[1] = "null" -> PyNone
      [] j[1] = "number" -> PyInt(j[2])
      [] j[1] = "string" -> PyStr(j[2])
      [] j[1] = "array" ->
            PyList([i \in 1..Len(j[2]) |-> JsonDecode(j[2][i])])
      [] j[1] = "object" ->
            PyDict([k \in DOMAIN j[2] |-> JsonDecode(j[2][k])])

\* json.dumps(manifest): the manifest is a dict with str keys
ManifestSerializable(m) == \A k \in DOMAIN m : Serializable(m[k])

JsonDumps(m) == <<"object", [k \in DOMAIN m |-> JsonEncode(m[k])]>>

\* The bytes of a file or of an archive entry: UTF-8 JSON text, the output
\* of bsdiff4.diff, the empty bytes, bytes that are none of these, or the
\* content of a game file; UnreadableBytes are bytes the disk fails to
\* deliver (the read raises OSError).
JsonText(j) == <<"json", j>>
UnreadableBytes == <<"unreadable">>
EmptyBytes == <<"empty">>
GarbageBytes == <<"garbage">>
FileBytes(name) == <<"file", name>>

\* An exception: its type, its args and its __cause__ (raise ... from e).
NoExc == [type |-> "none"]
Exc(type, args) == [type |-> type, args |-> args, cause |-> NoExc]
ExcFrom(type, args, e) == [type |-> type, args |-> args, cause |-> e]

\* str(x) inside an f-string
Fmt(v) ==
    CASE v[1] = "int" -> <<ToString(v[2])>>
      [] v[1] = "str" -> v[2]
      [] v[1] = "None" -> <<"None">>
      [] OTHER -> <<"<object>">>

container_version == 6

----------------------------------------------------------------------------
(* Classes *)

\* APContainer, APPatch, a concrete APAutoPatchInterface that is no delta
\* patch, and three APDeltaPatch subclasses: DeltaA and DeltaN extend
\* APDeltaPatch, DeltaB extends DeltaA; DeltaA and DeltaB override
\* get_source_data, DeltaN inherits the one that raises.
Kinds == {"APContainer", "APPatch", "AutoPatch", "DeltaA", "DeltaB", "DeltaN"}
DeltaKinds == {"DeltaA", "DeltaB", "DeltaN"}
PatchKinds == Kinds \ {"APContainer"}

\* the class a delta class extends ("APDeltaPatch" sets no source_data)
Parent(c) == IF c = "DeltaB" THEN "DeltaA" ELSE "APDeltaPatch"

\* class attribute game
Game(k) ==
    CASE k \in {"APContainer", "APPatch"} -> PyNone
      [] OTHER -> PyStr(<<k>>)

\* a delta patch that inherits procedure from APPatch
ProcedureInherited(k) == PyStr(<<"custom">>)

\* class attribute procedure: "custom" from APPatch, None from APDeltaPatch;
\* the AutoPatch class declares a list of (name, arguments) steps
Procedure(k) ==
    CASE k \in DeltaKinds -> PyNone
      [] k = "AutoPatch" ->
            PyList(<<PyTuple(<<PyStr(<<"apply_tokens">>),
                              PyList(<<PyStr(<<"token_data.bin">>)>>)>>)>>)
      [] OTHER -> PyStr(<<"custom">>)

\* class attributes hash, result_file_ending and patch_file_ending
Hash(k) == PyStr(<<"md5 of ", k>>)
ResultFileEnding(k) == PyStr(<<".sfc">>)
PatchFileEnding(k) == PyStr(<<".ap", k>>)

BaseA == FileBytes("BaseA")
BaseB == FileBytes("BaseB")

\* get_source_data(): what the class method returns, or that it raises
GetSourceDataRaises(c) == c = "DeltaN"

get_source_data(c) == IF c = "DeltaB" THEN BaseB ELSE BaseA

----------------------------------------------------------------------------
(* The cache of the base: get_source_data_with_cache *)

NoAttr == <<"no attribute">>

\* a test that never finds the attribute
HasAttrNever(sd, c) == FALSE

\* hasattr(cls, "source_data"): the class's own attribute or an inherited one
HasAttr(sd, c) ==
    \/ sd[c] # NoAttr
    \/ (Parent(c) \in DeltaKinds /\ sd[Parent(c)] # NoAttr)

\* cls.source_data: the own attribute first, then the parent's
GetAttr(sd, c) == IF sd[c] # NoAttr THEN sd[c] ELSE sd[Parent(c)]

\* get_source_data_with_cache run alone: the class attributes after it,
\* what it returns or raises, and whether it ran get_source_data
GetSourceDataWithCache(sd, c) ==
    IF HasAttr(sd, c)
    THEN [sd |-> sd, val |-> GetAttr(sd, c), exc |-> NoExc, derived |-> FALSE]
    ELSE IF GetSourceDataRaises(c)
    THEN [sd |-> sd, val |-> NoAttr,
          exc |-> Exc("NotImplementedError", <<>>), derived |-> TRUE]
    ELSE LET sd1 == [sd EXCEPT ![c] = get_source_data(c)]
         IN [sd |-> sd1, val |-> GetAttr(sd1, c), exc |-> NoExc,
             derived |-> TRUE]

----------------------------------------------------------------------------
(* bsdiff4 *)

\* a diff taken the wrong way round
DiffSwapped(base, target) == <<"BSDIFF40", target, base>>

\* bsdiff4.diff(base, target): bytes from which patch rebuilds target
Diff(base, target) == <<"BSDIFF40", base, target>>

\* bsdiff4.patch(base, delta): the target when delta was made against base;
\* with another base it raises or returns bytes that are not the target;
\* bytes that are no bsdiff4 patch raise
ApplyOutcomes(base, delta) ==
    IF delta[1] = "BSDIFF40"
    THEN IF delta[2] = base
         THEN {[ok |-> TRUE, data |-> delta[3]]}
         ELSE {[ok |-> TRUE, data |-> GarbageBytes], [ok |-> FALSE]}
    ELSE {[ok |-> FALSE]}

----------------------------------------------------------------------------
(* Files and archives *)

ZipPath == "z.zip"
RomPath == "patched.rom"
OutPath == "out.sfc"
Paths == {ZipPath, RomPath, OutPath}

Absent == [kind |-> "absent"]
RawFile(data) == [kind |-> "raw", data |-> data]
ZipFile(entries) == [kind |-> "zip", entries |-> entries]

ManifestName == "archipelago.json"
\* the delta entry under another name
DeltaNameBin == "delta.bin"
DeltaName == "delta.bsdiff4"

Entry(name, data, compress_type) ==
    [name |-> name, data |-> data, compress_type |-> compress_type]

HasEntry(zf, name) == \E i \in 1..Len(zf) : zf[i].name = name

\* ZipFile.read / ZipFile.open of a name that is in the archive
EntryData(zf, name) == zf[CHOOSE i \in 1..Len(zf) : zf[i].name = name].data

NoItem(name) ==
    Exc("KeyError",
        <<PyStr(<<"There is no item named '", name, "' in the archive">>)>>)

----------------------------------------------------------------------------
(* APContainer, APPatch, APDeltaPatch *)

\* __init__
NewInstance(kind, path, player, player_name, server, patched_path) ==
    [kind |-> kind, path |-> path, player |-> player,
     player_name |-> player_name, server |-> server,
     delta |-> PyNone, patched_path |-> patched_path]

ManifestSet(m, k, v) ==
    [x \in DOMAIN m \cup {k} |-> IF x = k THEN v ELSE m[x]]

\* a get_manifest that files the server under player_name and back
ContainerManifestSwapped(s) ==
    [server |-> s.player_name,
     player |-> s.player,
     player_name |-> s.server,
     game |-> Game(s.kind),
     compatible_version |-> PyInt(5),
     version |-> PyInt(container_version)]

\* APContainer.get_manifest
ContainerManifest(s) ==
    [server |-> s.server,
     player |-> s.player,
     player_name |-> s.player_name,
     game |-> Game(s.kind),
     compatible_version |-> PyInt(5),
     version |-> PyInt(container_version)]

\* APPatch.get_manifest
PatchManifest(s) ==
    LET m0 == ContainerManifest(s)
        m1 == ManifestSet(m0, "procedure", Procedure(s.kind))
    IN ManifestSet(m1, "compatible_version", PyInt(6))

\* APDeltaPatch.get_manifest without its last assignment
DeltaManifestNoOverride(s) ==
    LET m0 == PatchManifest(s)
        m1 == ManifestSet(m0, "base_checksum", Hash(s.kind))
        m2 == ManifestSet(m1, "result_file_ending", ResultFileEnding(s.kind))
    IN ManifestSet(m2, "patch_file_ending", PatchFileEnding(s.kind))

\* APDeltaPatch.get_manifest
DeltaManifest(s) ==
    LET m0 == PatchManifest(s)
        m1 == ManifestSet(m0, "base_checksum", Hash(s.kind))
        m2 == ManifestSet(m1, "result_file_ending", ResultFileEnding(s.kind))
        m3 == ManifestSet(m2, "patch_file_ending", PatchFileEnding(s.kind))
    IN ManifestSet(m3, "compatible_version", PyInt(5))

\* self.get_manifest()
get_manifest(s) ==
    CASE s.kind = "APContainer" -> ContainerManifest(s)
      [] s.kind \in DeltaKinds -> DeltaManifest(s)
      [] OTHER -> PatchManifest(s)

\* the test of `file if file else self.path` and of `if not zip_file`
ZipFileOf(s, file) == IF file # None THEN file ELSE s.path

NoPathError(op, s) ==
    Exc("FileNotFoundError",
        <<PyStr(<<"Cannot ", op, " ", s.kind, " due to no path provided.">>)>>)

\* APContainer.write_contents on the entries written so far
ContainerWriteContents(s, zf) ==
    LET manifest == get_manifest(s) IN
    IF ~ManifestSerializable(manifest)
    THEN [zf |-> zf,
          exc |-> ExcFrom("Exception",
                          <<PyStr(<<"Manifest ", "<manifest>",
                                    " did not convert to json.">>)>>,
                          Exc("TypeError", <<>>))]
    ELSE [zf |-> Append(zf, Entry(ManifestName, JsonText(JsonDumps(manifest)),
                                  "ZIP_DEFLATED")),
          exc |-> NoExc]

\* open(self.patched_path, "rb") finds a file
PatchedReadable(s, f) ==
    /\ s.patched_path # None
    /\ f[s.patched_path].kind = "raw"

\* APDeltaPatch.write_contents: the manifest, then the base (through the
\* cache), then the patched file, then the diff as a stored entry
DeltaWriteContents(s, zf, f, sd) ==
    LET b == ContainerWriteContents(s, zf) IN
    IF b.exc # NoExc THEN [zf |-> b.zf, sd |-> sd, exc |-> b.exc]
    ELSE LET c == GetSourceDataWithCache(sd, s.kind) IN
    IF c.exc # NoExc THEN [zf |-> b.zf, sd |-> c.sd, exc |-> c.exc]
    ELSE IF ~PatchedReadable(s, f)
    THEN [zf |-> b.zf, sd |-> c.sd,
          exc |-> Exc("FileNotFoundError",
                      <<PyInt(2), PyStr(<<"No such file or directory">>)>>)]
    ELSE [zf |-> Append(b.zf, Entry(DeltaName,
                                     Diff(c.val, f[s.patched_path].data),
                                     "ZIP_STORED")),
          sd |-> c.sd, exc |-> NoExc]

\* self.write_contents(zf)
write_contents(s, zf, f, sd) ==
    IF s.kind \in DeltaKinds
    THEN DeltaWriteContents(s, zf, f, sd)
    ELSE LET b == ContainerWriteContents(s, zf)
         IN [zf |-> b.zf, sd |-> sd, exc |-> b.exc]

\* APContainer.write run alone (the semaphore is then free): the archive
\* is created empty when it is opened, holds what write_contents wrote
\* when it is closed, and is closed also when write_contents raised
write(s, f, sd, file) ==
    LET zip_file == ZipFileOf(s, file) IN
    IF zip_file = None
    THEN [self |-> s, fs |-> f, sd |-> sd, exc |-> NoPathError("write", s)]
    ELSE LET s1 == IF file # None THEN [s EXCEPT !.path = file] ELSE s
             f1 == [f EXCEPT ![zip_file] = ZipFile(<<>>)]
             w == write_contents(s1, <<>>, f1, sd)
         IN [self |-> s1,
             fs |-> [f1 EXCEPT ![zip_file] = ZipFile(w.zf)],
             sd |-> w.sd,
             exc |-> w.exc]

KeyErrorOf(key) == Exc("KeyError", <<PyStr(<<key>>)>>)

TooNew(cv, version) ==
    Exc("Exception",
        <<PyStr(<<"File (version: ">> \o Fmt(cv) \o <<") too new ">>
                \o <<"for this handler (version: ">> \o Fmt(PyInt(version))
                \o <<")">>)>>)

\* the class attribute version of every class modelled
Version(k) == container_version

\* a comparison that accepts a file one version newer than the handler
VersionCheckOffByOne(s, m) ==
    IF "compatible_version" \notin DOMAIN m
    THEN KeyErrorOf("compatible_version")
    ELSE IF m["compatible_version"][1] # "int"
    THEN Exc("TypeError", <<PyStr(<<"'>' not supported">>)>>)
    ELSE IF m["compatible_version"][2] > Version(s.kind) + 1
    THEN TooNew(m["compatible_version"], Version(s.kind))
    ELSE NoExc

\* `if manifest["compatible_version"] > self.version: raise ...` on a dict:
\* the exception raised, or none
VersionCheck(s, m) ==
    IF "compatible_version" \notin DOMAIN m
    THEN KeyErrorOf("compatible_version")
    ELSE IF m["compatible_version"][1] # "int"
    THEN Exc("TypeError",
             <<PyStr(<<"'>' not supported between instances of '",
                       m["compatible_version"][1], "' and 'int'">>)>>)
    ELSE IF m["compatible_version"][2] > Version(s.kind)
    THEN TooNew(m["compatible_version"], Version(s.kind))
    ELSE NoExc

\* the three assignments from the manifest, in the order of the code: the
\* instance as the assignments executed leave it, and the KeyError of the
\* first key the manifest lacks
Populate(s, m) ==
    IF "player" \notin DOMAIN m
    THEN [self |-> s, exc |-> KeyErrorOf("player")]
    ELSE LET s1 == [s EXCEPT !.player = m["player"]] IN
    IF "server" \notin DOMAIN m
    THEN [self |-> s1, exc |-> KeyErrorOf("server")]
    ELSE LET s2 == [s1 EXCEPT !.server = m["server"]] IN
    IF "player_name" \notin DOMAIN m
    THEN [self |-> s2, exc |-> KeyErrorOf("player_name")]
    ELSE [self |-> [s2 EXCEPT !.player_name = m["player_name"]],
          exc |-> NoExc]

\* APContainer.read_contents: the instance as the statements executed up
\* to the return or the raise leave it, and the exception raised
ContainerReadContents(s, zf) ==
    IF ~HasEntry(zf, ManifestName)
    THEN [self |-> s, exc |-> NoItem(ManifestName)]
    ELSE LET data == EntryData(zf, ManifestName) IN
    IF data = UnreadableBytes
    THEN [self |-> s,
          exc |-> Exc("OSError", <<PyInt(5), PyStr(<<"Input/output error">>)>>)]
    ELSE IF data[1] # "json"
    THEN [self |-> s,
          exc |-> Exc("JSONDecodeError",
                      <<PyStr(<<"Expecting value: line 1 column 1 (char 0)">>)>>)]
    ELSE LET manifest == JsonDecode(data[2]) IN
    IF manifest[1] # "dict"
    THEN [self |-> s,
          exc |-> Exc("TypeError",
                      <<PyStr(<<manifest[1], " indices must be integers">>)>>)]
    ELSE LET gate == VersionCheck(s, manifest[2]) IN
    IF gate # NoExc
    THEN [self |-> s, exc |-> gate]
    ELSE Populate(s, manifest[2])

\* a read_contents that loads the delta entry before it looks at the manifest
DeltaReadContentsDeltaFirst(s, zf) ==
    IF ~HasEntry(zf, DeltaName)
    THEN [self |-> s, exc |-> NoItem(DeltaName)]
    ELSE ContainerReadContents([s EXCEPT !.delta = EntryData(zf, DeltaName)],
                               zf)

\* APDeltaPatch.read_contents
DeltaReadContents(s, zf) ==
    LET b == ContainerReadContents(s, zf) IN
    IF b.exc # NoExc THEN b
    ELSE IF ~HasEntry(zf, DeltaName)
    THEN [self |-> b.self, exc |-> NoItem(DeltaName)]
    ELSE [self |-> [b.self EXCEPT !.delta = EntryData(zf, DeltaName)],
          exc |-> NoExc]

\* self.read_contents(zf)
read_contents(s, zf) ==
    IF s.kind \in DeltaKinds
    THEN DeltaReadContents(s, zf)
    ELSE ContainerReadContents(s, zf)

Hint == "This might be the incorrect world version for this file"

\* an except clause that drops the inner message
InvalidDataErrorNoPrefix(e) ==
    ExcFrom("InvalidDataError", <<PyStr(<<Hint>>)>>, e)

\* the except clause of APContainer.read
InvalidDataError(e) ==
    LET message ==
            IF Len(e.args) > 0 /\ e.args[1][1] = "str"
            THEN e.args[1][2] \o <<" - ">>
            ELSE <<>>
    IN ExcFrom("InvalidDataError", <<PyStr(message \o <<Hint>>)>>, e)

\* APContainer.read
read(s, f, file) ==
    LET zip_file == ZipFileOf(s, file) IN
    IF zip_file = None
    THEN [self |-> s, exc |-> NoPathError("read", s)]
    ELSE IF f[zip_file].kind = "absent"
    THEN [self |-> s,
          exc |-> Exc("FileNotFoundError",
                      <<PyInt(2), PyStr(<<"No such file or directory">>)>>)]
    ELSE IF f[zip_file].kind # "zip"
    THEN [self |-> s,
          exc |-> Exc("BadZipFile", <<PyStr(<<"File is not a zip file">>)>>)]
    ELSE LET s1 == IF file # None THEN [s EXCEPT !.path = file] ELSE s
             r == read_contents(s1, f[zip_file].entries)
         IN IF r.exc = NoExc THEN r
            ELSE [self |-> r.self, exc |-> InvalidDataError(r.exc)]

\* `not self.delta`: None and b"" are false
DeltaLoaded(s) == s.delta # PyNone /\ s.delta # EmptyBytes

\* a patch() that opens the target for writing before it applies the delta
patchTargetFirst(s, f, sd, target) ==
    LET r == IF DeltaLoaded(s) THEN [self |-> s, exc |-> NoExc]
             ELSE read(s, f, None)
        f1 == [f EXCEPT ![target] = RawFile(EmptyBytes)]
    IN
    IF r.exc # NoExc
    THEN {[self |-> r.self, fs |-> f, sd |-> sd, exc |-> r.exc]}
    ELSE LET c == GetSourceDataWithCache(sd, s.kind) IN
    IF c.exc # NoExc
    THEN {[self |-> r.self, fs |-> f1, sd |-> c.sd, exc |-> c.exc]}
    ELSE {IF o.ok
          THEN [self |-> r.self,
                fs |-> [f EXCEPT ![target] = RawFile(o.data)],
                sd |-> c.sd, exc |-> NoExc]
          ELSE [self |-> r.self, fs |-> f1, sd |-> c.sd,
                exc |-> Exc("ValueError", <<PyStr(<<"corrupt patch">>)>>)]
          : o \in ApplyOutcomes(c.val, r.self.delta)}

\* APDeltaPatch.patch: every outcome bsdiff4.patch allows
patch(s, f, sd, target) ==
    LET r == IF DeltaLoaded(s) THEN [self |-> s, exc |-> NoExc]
             ELSE read(s, f, None)
    IN
    IF r.exc # NoExc
    THEN {[self |-> r.self, fs |-> f, sd |-> sd, exc |-> r.exc]}
    ELSE LET c == GetSourceDataWithCache(sd, s.kind) IN
    IF c.exc # NoExc
    THEN {[self |-> r.self, fs |-> f, sd |-> c.sd, exc |-> c.exc]}
    ELSE {IF o.ok
          THEN [self |-> r.self,
                fs |-> [f EXCEPT ![target] = RawFile(o.data)],
                sd |-> c.sd, exc |-> NoExc]
          ELSE [self |-> r.self, fs |-> f, sd |-> c.sd,
                exc |-> Exc("ValueError", <<PyStr(<<"corrupt patch">>)>>)]
          : o \in ApplyOutcomes(c.val, r.self.delta)}

----------------------------------------------------------------------------
(* The caller of one container: construct, write, read, patch *)

\* the values the caller gives player, player_name and server
FieldValues ==
    { [player |-> PyNone, player_name |-> PyStr(<<>>), server |-> PyStr(<<>>)],
      [player |-> PyInt(1), player_name |-> PyStr(<<"Al">>),
       server |-> PyStr(<<"host:1">>)],
      [player |-> PyInt(1), player_name |-> PyStr(<<>>),
       server |-> PyStr(<<"host:1">>)],
      [player |-> PyNone, player_name |-> PyStr(<<"Al">>),
       server |-> PyStr(<<>>)] }

\* the contents the patched file may have
TargetValues == {FileBytes("T1"), FileBytes("T2")}

NotWritten == [kind |-> "none"]

Call(op, exc) == [op |-> op, exc |-> exc]

\* cls(path, player, player_name, server, patched_path=...)
Construct(kind, path, player, player_name, server, patched_path) ==
    /\ nobj < MaxObjects
    /\ nobj' = nobj + 1
    /\ self' = NewInstance(kind, path, player, player_name, server,
                           patched_path)
    /\ last' = Call("init", NoExc)
    /\ UNCHANGED <<fs, source_data, origin>>
    /\ UNCHANGED <<regvars, thvars>>

ConstructContainer ==
    \E kind \in Kinds \ DeltaKinds, path \in {None, ZipPath},
       v \in FieldValues :
        Construct(kind, path, v.player, v.player_name, v.server, None)

ConstructDelta ==
    \E kind \in DeltaKinds, path \in {None, ZipPath},
       v \in FieldValues, patched_path \in {None, RomPath} :
        Construct(kind, path, v.player, v.player_name, v.server, patched_path)

\* self.write(file)
Write(file) ==
    LET w == write(self, fs, source_data, file) IN
    /\ self' = w.self
    /\ fs' = w.fs
    /\ source_data' = w.sd
    /\ last' = Call("write", w.exc)
    /\ origin' =
          IF ZipFileOf(self, file) = None THEN origin
          ELSE IF w.exc # NoExc THEN NotWritten
          ELSE [kind |-> self.kind, player |-> self.player,
                player_name |-> self.player_name, server |-> self.server,
                target |-> IF self.kind \in DeltaKinds
                           THEN fs[self.patched_path].data
                           ELSE PyNone]
    /\ UNCHANGED nobj
    /\ UNCHANGED <<regvars, thvars>>

WriteCall == \E file \in {None, ZipPath} : Write(file)

\* self.read(file)
Read(file) ==
    LET r == read(self, fs, file) IN
    /\ self' = r.self
    /\ last' = Call("read", r.exc)
    /\ UNCHANGED <<fs, source_data, nobj, origin>>
    /\ UNCHANGED <<regvars, thvars>>

ReadCall == \E file \in {None, ZipPath} : Read(file)

\* self.patch(target), of a delta patch
Patch(target) ==
    /\ self.kind \in DeltaKinds
    /\ \E o \in patch(self, fs, source_data, target) :
        /\ self' = o.self
        /\ fs' = o.fs
        /\ source_data' = o.sd
        /\ last' = Call("patch", o.exc)
    /\ UNCHANGED <<nobj, origin>>
    /\ UNCHANGED <<regvars, thvars>>

PatchCall == Patch(OutPath)

\* Archives the caller may be handed that no write() of this module made.
JNum(n) == <<"number", n>>
JStr(s) == <<"string", s>>

ForeignManifest(cv) ==
    [compatible_version |-> cv, version |-> JNum(6), game |-> <<"null">>,
     player |-> JNum(7), player_name |-> JStr(<<"Eve">>),
     server |-> JStr(<<"evil:1">>)]

Without(m, k) == [x \in DOMAIN m \ {k} |-> m[x]]

ManifestEntry(j) == Entry(ManifestName, JsonText(j), "ZIP_DEFLATED")
DeltaEntry(d) == Entry(DeltaName, d, "ZIP_STORED")

ForeignArchives ==
    { <<>>,
      <<Entry(ManifestName, GarbageBytes, "ZIP_DEFLATED")>>,
      <<Entry(ManifestName, UnreadableBytes, "ZIP_DEFLATED")>>,
      <<ManifestEntry(<<"array", <<>>>>)>>,
      <<ManifestEntry(<<"object",
                        Without(ForeignManifest(JNum(5)), "compatible_version")>>)>>,
      <<ManifestEntry(<<"object", ForeignManifest(JStr(<<"7">>))>>)>>,
      <<ManifestEntry(<<"object", ForeignManifest(JNum(container_version + 1))>>),
        DeltaEntry(Diff(BaseA, FileBytes("T1")))>>,
      <<ManifestEntry(<<"object", ForeignManifest(JNum(999))>>),
        DeltaEntry(Diff(BaseA, FileBytes("T1")))>>,
      <<ManifestEntry(<<"object",
                        Without(ForeignManifest(JNum(6)), "server")>>),
        DeltaEntry(Diff(BaseA, FileBytes("T1")))>>,
      <<ManifestEntry(<<"object", ForeignManifest(JNum(5))>>)>>,
      <<ManifestEntry(<<"object", ForeignManifest(JNum(5))>>),
        DeltaEntry(Diff(FileBytes("Other"), FileBytes("T1")))>>,
      <<ManifestEntry(<<"object", ForeignManifest(JNum(5))>>),
        DeltaEntry(GarbageBytes)>>,
      <<ManifestEntry(<<"object", ForeignManifest(JNum(5))>>),
        DeltaEntry(EmptyBytes)>> }

IOStart ==
    /\ self = NewInstance("APContainer", None, PyNone, PyStr(<<>>),
                          PyStr(<<>>), None)
    /\ source_data = [c \in DeltaKinds |-> NoAttr]
    /\ last = Call("init", NoExc)
    /\ nobj = 0
    /\ origin = NotWritten

----------------------------------------------------------------------------
(* Threads: write() under the semaphore, get_source_data_with_cache()      *)
(*                                                                         *)
(* Each thread works on a container of its own.  A call is cut where       *)
(* another thread can come between: at the semaphore, at the opening and   *)
(* the closing of the archive, and between the test, the assignment and    *)
(* the read of cls.source_data.  What depends on the caller's data or on   *)
(* the disk (the archive cannot be opened, the manifest does not           *)
(* serialize, the patched file is unreadable, the diff fails) may or may   *)
(* not happen.                                                             *)

Threads == 1..NumThreads

\* os.cpu_count(): None (0 here) or the number of processing units
CpuCounts == 0..MaxCpu

DefaultSlots == 4

\* a semaphore of at least DefaultSlots slots
SemaphoreValueAtLeastDefault(n) == IF n < DefaultSlots THEN DefaultSlots ELSE n

\* threading.Semaphore(os.cpu_count() or 4)
SemaphoreValue(n) == IF n = 0 THEN DefaultSlots ELSE n

Capacity == SemaphoreValue(cpu_count)

ThreadKinds == {"APContainer", "DeltaA", "DeltaN"}

NoCall == [op |-> "none", kind |-> "none", exc |-> "none", hit |-> FALSE]

\* the call of thread t has returned or raised exc
Ended(t, exc) ==
    /\ pc' = [pc EXCEPT ![t] = "idle"]
    /\ th' = [th EXCEPT ![t] = NoCall]
    /\ last' = Call(th[t].op, [type |-> exc])

Goto(t, where, exc) ==
    /\ pc' = [pc EXCEPT ![t] = where]
    /\ th' = [th EXCEPT ![t].exc = exc]
    /\ UNCHANGED last

\* thread t calls write() on a container of its own, with or without a
\* destination
CallWrite(t) ==
    /\ pc[t] = "idle"
    /\ ncalls < MaxCalls
    /\ ncalls' = ncalls + 1
    /\ \E kind \in ThreadKinds, dest \in BOOLEAN :
        IF dest
        THEN /\ pc' = [pc EXCEPT ![t] = "acquire"]
             /\ th' = [th EXCEPT ![t] =
                          [op |-> "write", kind |-> kind, exc |-> "none",
                           hit |-> FALSE]]
             /\ UNCHANGED last
        ELSE /\ last' = Call("write", [type |-> "FileNotFoundError"])
             /\ UNCHANGED <<pc, th>>
    /\ UNCHANGED <<cpu_count, sem, nderive, source_data>>
    /\ UNCHANGED <<regvars, self, fs, nobj, origin>>

\* thread t calls cls.get_source_data_with_cache() itself
CallCache(t) ==
    /\ pc[t] = "idle"
    /\ ncalls < MaxCalls
    /\ ncalls' = ncalls + 1
    /\ \E kind \in ThreadKinds \cap DeltaKinds :
        /\ pc' = [pc EXCEPT ![t] = "check"]
        /\ th' = [th EXCEPT ![t] =
                     [op |-> "cache", kind |-> kind, exc |-> "none",
                      hit |-> FALSE]]
    /\ UNCHANGED <<cpu_count, sem, nderive, source_data>>
    /\ UNCHANGED <<regvars, self, fs, last, nobj, origin>>

\* a semaphore that lets every caller in
CanAcquireAlways(v) == TRUE

\* Semaphore.acquire blocks while the value is 0
CanAcquire(v) == v > 0

\* `with semaphore:` entered
Acquire(t) ==
    /\ pc[t] = "acquire"
    /\ CanAcquire(sem)
    /\ sem' = sem - 1
    /\ pc' = [pc EXCEPT ![t] = "open"]
    /\ UNCHANGED <<cpu_count, th, ncalls, nderive, source_data>>
    /\ UNCHANGED <<regvars, self, fs, last, nobj, origin>>

\* zipfile.ZipFile(zip_file, "w", ...) and, once it is open, the manifest
\* part of write_contents
Open(t) ==
    /\ pc[t] = "open"
    /\ \/ Goto(t, "release", "OSError")
       \/ Goto(t, "close", "Exception")
       \/ Goto(t, IF th[t].kind \in DeltaKinds THEN "check" ELSE "close",
               "none")
    /\ UNCHANGED <<cpu_count, sem, ncalls, nderive, source_data>>
    /\ UNCHANGED <<regvars, self, fs, nobj, origin>>

\* where a call goes when get_source_data_with_cache raised
Raised(t, exc) ==
    IF th[t].op = "write" THEN Goto(t, "close", exc) ELSE Ended(t, exc)

\* `if not hasattr(cls, "source_data")` and, when it has none, the call of
\* cls.get_source_data()
Check(t) ==
    /\ pc[t] = "check"
    /\ IF HasAttr(source_data, th[t].kind)
       THEN /\ pc' = [pc EXCEPT ![t] = "ret"]
            /\ th' = [th EXCEPT ![t].hit = TRUE]
            /\ UNCHANGED <<nderive, last>>
       ELSE /\ nderive' = [nderive EXCEPT ![th[t].kind] = @ + 1]
            /\ IF GetSourceDataRaises(th[t].kind)
               THEN Raised(t, "NotImplementedError")
               ELSE Goto(t, "store", "none")
    /\ UNCHANGED <<cpu_count, sem, ncalls, source_data>>
    /\ UNCHANGED <<regvars, self, fs, nobj, origin>>

\* `cls.source_data = ...`
Store(t) ==
    /\ pc[t] = "store"
    /\ source_data' =
          [source_data EXCEPT ![th[t].kind] = get_source_data(th[t].kind)]
    /\ Goto(t, "ret", "none")
    /\ UNCHANGED <<cpu_count, sem, ncalls, nderive>>
    /\ UNCHANGED <<regvars, self, fs, nobj, origin>>

\* `return cls.source_data`; in write_contents then the patched file is
\* read, the diff is taken and the delta entry is written
Return(t) ==
    /\ pc[t] = "ret"
    /\ IF th[t].op = "write"
       THEN \/ Goto(t, "close", "none")
            \/ Goto(t, "close", "FileNotFoundError")
            \/ Goto(t, "close", "MemoryError")
       ELSE Ended(t, "none")
    /\ UNCHANGED <<cpu_count, sem, ncalls, nderive, source_data>>
    /\ UNCHANGED <<regvars, self, fs, nobj, origin>>

\* the archive is closed: `with zipfile.ZipFile(...) as zf` is left
Close(t) ==
    /\ pc[t] = "close"
    /\ Goto(t, "release", th[t].exc)
    /\ UNCHANGED <<cpu_count, sem, ncalls, nderive, source_data>>
    /\ UNCHANGED <<regvars, self, fs, nobj, origin>>

\* a release that is skipped when an exception is on its way out
SemAfterReleaseLeak(v, exc) == IF exc = "none" THEN v + 1 ELSE v

\* Semaphore.__exit__: release, whatever the body did
SemAfterRelease(v, exc) == v + 1

\* `with semaphore:` left; write() returns or raises
Release(t) ==
    /\ pc[t] = "release"
    /\ sem' = SemAfterRelease(sem, th[t].exc)
    /\ Ended(t, th[t].exc)
    /\ UNCHANGED <<cpu_count, ncalls, nderive, source_data>>
    /\ UNCHANGED <<regvars, self, fs, nobj, origin>>

\* the threads before any call
ThStart ==
    /\ sem = Capacity
    /\ pc = [t \in Threads |-> "idle"]
    /\ th = [t \in Threads |-> NoCall]
    /\ ncalls = 0
    /\ nderive = [c \in DeltaKinds |-> 0]

----------------------------------------------------------------------------
(* Specifications *)

\* the registry before any class statement
RegInit ==
    /\ RegStart
    /\ IOStart
    /\ fs = [p \in Paths |-> Absent]
    /\ cpu_count = 0
    /\ ThStart

RegNext == DeclareClass

SpecRegistry == RegInit /\ [][RegNext]_vars

IOInit ==
    /\ RegStart
    /\ IOStart
    /\ \E z \in {Absent} \cup {ZipFile(a) : a \in ForeignArchives},
          r \in {RawFile(t) : t \in TargetValues} :
        fs = [p \in Paths |->
                IF p = ZipPath THEN z ELSE IF p = RomPath THEN r ELSE Absent]
    /\ cpu_count = 0
    /\ ThStart

IONext ==
    \/ ConstructContainer
    \/ ConstructDelta
    \/ WriteCall
    \/ ReadCall
    \/ PatchCall

\* one caller working on one container at a time
SpecIO == IOInit /\ [][IONext]_vars

ThInit ==
    /\ RegStart
    /\ IOStart
    /\ fs = [p \in Paths |-> Absent]
    /\ cpu_count \in CpuCounts
    /\ ThStart

ThNext ==
    \/ \E t \in Threads : CallWrite(t)
    \/ \E t \in Threads : CallCache(t)
    \/ \E t \in Threads : Acquire(t)
    \/ \E t \in Threads : Open(t)
    \/ \E t \in Threads : Check(t)
    \/ \E t \in Threads : Store(t)
    \/ \E t \in Threads : Return(t)
    \/ \E t \in Threads : Close(t)
    \/ \E t \in Threads : Release(t)

\* a call that has started goes on: the thread is scheduled again, and a
\* thread blocked in acquire gets the semaphore when it stays available
Running(t) ==
    \/ Acquire(t) \/ Open(t) \/ Check(t) \/ Store(t)
    \/ Return(t) \/ Close(t) \/ Release(t)

\* the module imported on a machine of up to MaxUnits processing units
LimiterInit ==
    /\ RegStart
    /\ IOStart
    /\ fs = [p \in Paths |-> Absent]
    /\ cpu_count \in 0..MaxUnits
    /\ ThStart

SpecLimiter == LimiterInit /\ [][ThNext]_vars

\* threads calling write() and get_source_data_with_cache()
SpecThreads == ThInit /\ [][ThNext]_vars

SpecThreadsFair ==
    ThInit /\ [][ThNext]_vars /\ \A t \in Threads : WF_vars(Running(t))

----------------------------------------------------------------------------
(* Registry claims *)

\* class c went through __new__ to the file_endings assignment
Registered(c) ==
    /\ classes[c].hasGame
    /\ classes[c].hasEnding
    /\ classes[c].ending # <<>>

RegisteredEndings == {classes[c].ending : c \in {d \in 1..Len(classes) : Registered(d)}}

FirstRegistration(e) ==
    CHOOSE c \in 1..Len(classes) :
        /\ Registered(c) /\ classes[c].ending = e
        /\ \A d \in 1..(c - 1) : ~(Registered(d) /\ classes[d].ending = e)

LastRegistration(e) ==
    CHOOSE c \in 1..Len(classes) :
        /\ Registered(c) /\ classes[c].ending = e
        /\ \A d \in (c + 1)..Len(classes) : ~(Registered(d) /\ classes[d].ending = e)

\* e is a trailing match of file: file is some prefix of itself followed by e
TrailingMatch(file, e) ==
    \E k \in 0..Len(file) : file = SubSeq(file, 1, k) \o e

Matching(file) == {e \in RegisteredEndings : TrailingMatch(file, e)}

EarliestMatching(file) ==
    CHOOSE e \in Matching(file) :
        \A o \in Matching(file) : FirstRegistration(e) <= FirstRegistration(o)

C5_Resolution ==
    \A file \in FileNames :
        IF Matching(file) = {}
        THEN get_handler(file) = NoHandler
        ELSE get_handler(file) = LastRegistration(EarliestMatching(file))

C5_Stable ==
    \A file \in FileNames :
        (/\ GetHandler(file_endings, file) # NoHandler
         /\ Len(classes') = Len(classes) + 1
         /\ ~DictHas(file_endings, classes'[Len(classes')].ending))
        => GetHandler(file_endings', file) = GetHandler(file_endings, file)

\* C5: after any sequence of class statements get_handler(file) is the class
\* registered for the earliest-registered ending that is a trailing match of
\* file, and None when no registered ending is one; a class statement with
\* an ending not registered before leaves the result for every file that
\* already resolved as it was.
C5_GetHandlerEarliestMatch == [](C5_Resolution) /\ [][C5_Stable]_vars

\* "a" was registered before "ba", by different classes, and the name "ba",
\* which both match, resolves to the class of "a"
C5_Witness ==
    /\ Len(file_endings) >= 2
    /\ file_endings[1][1] = <<"a">>
    /\ file_endings[2][1] = <<"b", "a">>
    /\ get_handler(<<"b", "a">>) = file_endings[1][2]
    /\ file_endings[1][2] # file_endings[2][2]
    /\ get_handler(<<"a", "b">>) = NoHandler

InRegistry(c) ==
    \/ \E i \in 1..Len(patch_types) : patch_types[i][2] = c
    \/ \E i \in 1..Len(file_endings) : file_endings[i][2] = c

\* C6: every class in patch_types or file_endings declares a non-empty file
\* ending, and a class statement that failed left its class in neither
\* mapping.
C6_RegisteredHaveEnding ==
    /\ \A c \in 1..Len(classes) : InRegistry(c) => DeclaredEnding(c) # <<>>
    /\ declErr # "ok" => ~InRegistry(Len(classes))

\* every key of mapping d is a key of mapping e, for the same class
KeptIn(d, e) ==
    \A k \in DictKeys(d) : DictHas(e, k) /\ DictGet(e, k) = DictGet(d, k)

C11_Step ==
    /\ KeptIn(patch_types, patch_types')
    /\ KeptIn(file_endings, file_endings')

\* C11: a game or a file ending that maps to a class keeps mapping to that
\* class in every later state, whatever classes are declared afterwards.
C11_AppendOnly == [][C11_Step]_vars

----------------------------------------------------------------------------
(* Container claims *)

IsPrefix(p, t) == Len(p) <= Len(t) /\ SubSeq(t, 1, Len(p)) = p

\* the archive a read with this file argument opens, when it opens one
Opens(file) ==
    /\ ZipFileOf(self, file) # None
    /\ fs[ZipFileOf(self, file)].kind = "zip"

Opened(file) == fs[ZipFileOf(self, file)].entries

\* the manifest entry of an archive is a JSON object
HasManifestObject(zf) ==
    /\ HasEntry(zf, ManifestName)
    /\ EntryData(zf, ManifestName)[1] = "json"
    /\ EntryData(zf, ManifestName)[2][1] = "object"

ManifestObject(zf) == EntryData(zf, ManifestName)[2][2]

\* the manifest demands a reader newer than container_version
DemandsNewer(zf) ==
    /\ HasManifestObject(zf)
    /\ "compatible_version" \in DOMAIN ManifestObject(zf)
    /\ ManifestObject(zf)["compatible_version"][1] = "number"
    /\ ManifestObject(zf)["compatible_version"][2] > container_version

\* the text of an exception's first argument
MessageOf(e) == e.args[1][2]

\* e reports a file of version cv as too new for a handler of version 6
IsVersionTooNew(e, cv) ==
    /\ e.type = "Exception"
    /\ \E i, j \in 1..Len(MessageOf(e)) :
        /\ i < j
        /\ MessageOf(e)[i] = ToString(cv)
        /\ MessageOf(e)[j] = ToString(container_version)

C2_Step(file) ==
    (Read(file) /\ Opens(file) /\ DemandsNewer(Opened(file)))
    => /\ last'.exc # NoExc
       /\ IsVersionTooNew(last'.exc.cause,
                          ManifestObject(Opened(file))["compatible_version"][2])
       /\ IsPrefix(MessageOf(last'.exc.cause), MessageOf(last'.exc))
       /\ self'.player = self.player
       /\ self'.player_name = self.player_name
       /\ self'.server = self.server
       /\ self'.delta = self.delta

\* C2: a read() of an archive whose manifest has a compatible_version above
\* the reader's version (6) raises, the error is the version-too-new error
\* naming both versions (carried as the cause and as the start of the
\* message of what read raises), and player, player_name, server and delta
\* are as before the call.
C2_TooNewRejected == [][\A file \in {None, ZipPath} : C2_Step(file)]_vars

\* a delta patch holding player 1 has read the archive demanding version
\* 999, and still holds player 1 and no delta
C2_Witness ==
    /\ last.op = "read"
    /\ last.exc # NoExc
    /\ last.exc.cause # NoExc
    /\ IsVersionTooNew(last.exc.cause, 999)
    /\ self.kind \in DeltaKinds
    /\ self.player = PyInt(1)
    /\ self.delta = PyNone
    /\ HasEntry(fs[ZipPath].entries, DeltaName)

\* the archive at ZipPath is one a write() of an instance of self's class
\* made and closed without an error, and self is bound to it
Produced ==
    /\ origin # NotWritten
    /\ origin.kind = self.kind
    /\ self.path = ZipPath

\* C3: when the archive was written by a successful write() of a container
\* of some class and is then read into an instance of the same class, the
\* read succeeds and player, player_name and server are those of the
\* instance written.
C3_RoundTrip ==
    (last.op = "read" /\ Produced)
    => /\ last.exc = NoExc
       /\ self.player = origin.player
       /\ self.player_name = origin.player_name
       /\ self.server = origin.server

\* a second instance has read what an APPatch with player 1, name "Al" and
\* a server wrote
C3_Witness ==
    /\ last.op = "read"
    /\ Produced
    /\ nobj = 2
    /\ self.kind = "APPatch"
    /\ self.player = PyInt(1)
    /\ self.player_name = PyStr(<<"Al">>)
    /\ self.server = PyStr(<<"host:1">>)

\* the base get_source_data_with_cache() returns for self's class
BaseOf(k) == GetAttr(source_data, k)

\* self holds the delta entry of the archive at ZipPath
HoldsArchiveDelta ==
    /\ fs[ZipPath].kind = "zip"
    /\ HasEntry(fs[ZipPath].entries, DeltaName)
    /\ self.delta = EntryData(fs[ZipPath].entries, DeltaName)

\* C4: when a delta patch's write() produced the archive from a patched
\* file with content T, an instance of the same class that read it exposes
\* delta = diff(B, T), B the base of the class, and a patch(target) of an
\* instance holding that delta succeeds and leaves exactly T at target.
C4_DeltaRoundTrip ==
    /\ (last.op = "read" /\ last.exc = NoExc /\ Produced
        /\ self.kind \in DeltaKinds)
       => self.delta = Diff(BaseOf(self.kind), origin.target)
    /\ (last.op = "patch" /\ Produced /\ self.kind \in DeltaKinds
        /\ HoldsArchiveDelta)
       => /\ last.exc = NoExc
          /\ fs[OutPath] = RawFile(origin.target)

\* a second instance, of DeltaA, has patched T2 out of the archive a
\* DeltaA wrote
C4_Witness ==
    /\ last.op = "patch"
    /\ last.exc = NoExc
    /\ Produced
    /\ nobj = 2
    /\ self.kind = "DeltaA"
    /\ HoldsArchiveDelta
    /\ origin.target = FileBytes("T2")
    /\ fs[OutPath] = RawFile(FileBytes("T2"))

\* the manifest the last write() put in the archive
Emitted ==
    /\ last.op = "write"
    /\ self.path # None
    /\ HasEntry(fs[self.path].entries, ManifestName)

EmittedManifest ==
    JsonDecode(EntryData(fs[self.path].entries, ManifestName)[2])[2]

\* C7 as claimed: a plain container emits compatible_version 5, every patch
\* (APPatch, APAutoPatchInterface, APDeltaPatch) emits 6, all emit version 6
C7_PatchEmitsSix ==
    Emitted =>
        /\ EmittedManifest["version"] = PyInt(6)
        /\ EmittedManifest["compatible_version"] =
              IF self.kind = "APContainer" THEN PyInt(5) ELSE PyInt(6)

\* C7, amended: a plain container and a delta patch emit compatible_version
\* 5, a patch that is no delta patch emits 6; all emit version 6.
C7_CompatibleVersionPerKind ==
    Emitted =>
        /\ EmittedManifest["version"] = PyInt(6)
        /\ EmittedManifest["compatible_version"] =
              IF self.kind = "APContainer" \/ self.kind \in DeltaKinds
              THEN PyInt(5) ELSE PyInt(6)

\* a delta patch has written an archive whose manifest, a patch manifest
\* (it has the key procedure), says 5
C7_Witness ==
    /\ Emitted
    /\ last.exc = NoExc
    /\ self.kind = "DeltaA"
    /\ EmittedManifest["compatible_version"] = PyInt(5)
    /\ "procedure" \in DOMAIN EmittedManifest

\* what the archive lacks for read_contents of class k to go through
Defective(zf, k) ==
    \/ ~HasManifestObject(zf)
    \/ \E key \in {"compatible_version", "player", "server", "player_name"} :
            key \notin DOMAIN ManifestObject(zf)
    \/ ManifestObject(zf)["compatible_version"][1] # "number"
    \/ ManifestObject(zf)["compatible_version"][2] > container_version
    \/ (k \in DeltaKinds /\ ~HasEntry(zf, DeltaName))

HasText(e) == Len(e.args) > 0 /\ e.args[1][1] = "str"

C10_Step(file) ==
    (Read(file) /\ Opens(file) /\ Defective(Opened(file), self.kind))
    => /\ last'.exc.type = "InvalidDataError"
       /\ last'.exc.cause # NoExc
       /\ HasText(last'.exc)
       /\ IF HasText(last'.exc.cause)
          THEN /\ IsPrefix(MessageOf(last'.exc.cause), MessageOf(last'.exc))
               /\ MessageOf(last'.exc) # <<Hint>>
          ELSE MessageOf(last'.exc) = <<Hint>>

\* C10: a read() that opened the archive and met a failure in read_contents
\* (no manifest entry, manifest unreadable or not JSON or not an object, a
\* key missing, version too new, no delta entry) raises InvalidDataError
\* with the failure as its cause, and its message starts with the
\* failure's first argument when that is text.
C10_ParseFailuresWrapped == [][\A file \in {None, ZipPath} : C10_Step(file)]_vars

\* a delta patch has read an archive with a good manifest and no delta entry
C10_Witness ==
    /\ last.op = "read"
    /\ last.exc.type = "InvalidDataError"
    /\ last.exc.cause.type = "KeyError"
    /\ self.kind \in DeltaKinds
    /\ fs[ZipPath].kind = "zip"
    /\ ~HasEntry(fs[ZipPath].entries, DeltaName)
    /\ ~Defective(fs[ZipPath].entries, "APContainer")

\* player, player_name, server and delta of the instance stay as they are
SameData ==
    /\ self'.player = self.player
    /\ self'.player_name = self.player_name
    /\ self'.server = self.server
    /\ self'.delta = self.delta

C12_Step ==
    PatchCall =>
        /\ self.delta # PyNone => SameData
        /\ (self.delta = PyNone /\ last'.exc = NoExc) =>
              /\ Opens(None)
              /\ self'.delta = EntryData(Opened(None), DeltaName)
              /\ [ok |-> TRUE, data |-> fs'[OutPath].data]
                    \in ApplyOutcomes(GetAttr(source_data', self.kind),
                                      self'.delta)

\* C12: a patch() of an instance whose delta an earlier read loaded reads
\* nothing and leaves player, player_name, server and delta as they are; a
\* patch() of an instance with no delta that succeeds has loaded the delta
\* entry of the archive and applied that delta.
C12_ReadsExactlyWhenNotLoaded == [][C12_Step]_vars

\* the manifest of the archive is a JSON object whose compatible_version
\* is a number the reader's version (6) reaches
Compatible(zf) ==
    /\ HasManifestObject(zf)
    /\ "compatible_version" \in DOMAIN ManifestObject(zf)
    /\ ManifestObject(zf)["compatible_version"][1] = "number"
    /\ ManifestObject(zf)["compatible_version"][2] <= container_version

C14_Read(file) ==
    (last'.op = "read" /\ Opens(file) /\ Read(file)) =>
        LET zf == Opened(file) IN
        /\ ~Compatible(zf) => (SameData /\ last'.exc # NoExc)
        /\ ~HasEntry(zf, ManifestName) =>
              last'.exc.cause = NoItem(ManifestName)
        /\ self'.delta # self.delta =>
              /\ Compatible(zf)
              /\ \A k \in {"player", "server", "player_name"} :
                    /\ k \in DOMAIN ManifestObject(zf)
                    /\ self'[k] = JsonDecode(ManifestObject(zf)[k])

C14_Write(file) ==
    (last'.op = "write" /\ ZipFileOf(self, file) # None /\ Write(file)) =>
        LET zf == fs'[ZipFileOf(self, file)].entries IN
        /\ \A i \in 1..Len(zf) : zf[i].name = ManifestName <=> i = 1
        /\ (self.kind \in DeltaKinds /\ ~PatchedReadable(self, fs)) =>
              last'.exc # NoExc
        /\ (self.kind \in DeltaKinds /\ last'.exc # NoExc) => Len(zf) = 1

\* C14: a read() of an archive whose manifest is missing, unparsable or
\* incompatible assigns no field and reads no delta, and reports the
\* manifest when both entries are missing; a read() that loaded the delta
\* had the compatible manifest's player, server and player_name assigned.
\* A write() puts the manifest first in the archive: it is entry 1 and
\* the only entry of that name, and it is there, alone, when the delta part
\* failed (no base, no patched file).
C14_ManifestFirst ==
    [][\A file \in {None, ZipPath} : C14_Read(file) /\ C14_Write(file)]_vars

\* a delta patch read an archive with a compatible manifest that lacks
\* "server" and with a delta entry: player was assigned, the delta was not
\* read
C14_Witness ==
    /\ last.op = "read"
    /\ last.exc # NoExc
    /\ last.exc.cause = KeyErrorOf("server")
    /\ self.kind \in DeltaKinds
    /\ fs[ZipPath].kind = "zip"
    /\ HasEntry(fs[ZipPath].entries, DeltaName)
    /\ Compatible(fs[ZipPath].entries)
    /\ self.player = PyInt(7)
    /\ self.delta = PyNone

ContainerKeys ==
    {"server", "player", "player_name", "game", "compatible_version",
     "version"}

PatchKeys == ContainerKeys \cup {"procedure"}

DeltaKeys ==
    PatchKeys \cup {"base_checksum", "result_file_ending", "patch_file_ending"}

\* the keys a manifest of class k has: those of the levels k extends and
\* those k's own level adds
KeysOf(k) ==
    CASE k = "APContainer" -> ContainerKeys
      [] k \in DeltaKinds -> DeltaKeys
      [] OTHER -> PatchKeys

\* v, as json.load returns it, is the marker "custom" or a list of
\* [operation name, argument list] pairs
IsProcedure(v) ==
    \/ v = PyStr(<<"custom">>)
    \/ /\ v[1] = "list"
       /\ \A i \in 1..Len(v[2]) :
            /\ v[2][i][1] = "list"
            /\ Len(v[2][i][2]) = 2
            /\ v[2][i][2][1][1] = "str"
            /\ v[2][i][2][2][1] = "list"

\* C15 as claimed: every patch manifest has a procedure that is "custom" or
\* a list of steps, never null, and the keys of the levels below
C15_ProcedureNeverNull ==
    (Emitted /\ self.kind \in PatchKinds) =>
        /\ KeysOf(self.kind) \subseteq DOMAIN EmittedManifest
        /\ IsProcedure(EmittedManifest["procedure"])

\* C15, amended: every patch manifest has the key procedure and the keys of
\* the levels below; the value is "custom" or a list of steps for a patch
\* that is no delta patch, and null for a delta patch.
C15_ProcedurePerKind ==
    (Emitted /\ self.kind \in PatchKinds) =>
        /\ KeysOf(self.kind) \subseteq DOMAIN EmittedManifest
        /\ IF self.kind \in DeltaKinds
           THEN EmittedManifest["procedure"] = PyNone
           ELSE IsProcedure(EmittedManifest["procedure"])

\* a delta patch has written an archive whose manifest has every key of
\* the three levels and a null procedure
C15_Witness ==
    /\ Emitted
    /\ last.exc = NoExc
    /\ self.kind = "DeltaB"
    /\ DOMAIN EmittedManifest = DeltaKeys
    /\ EmittedManifest["procedure"] = PyNone

\* a write() of a delta patch went through: the archive has two entries,
\* the manifest, deflated, and the delta under the name given, stored
TwoEntries(file, name) ==
    (/\ last'.op = "write" /\ last'.exc = NoExc
     /\ self.kind \in DeltaKinds
     /\ Write(file)) =>
        LET zf == fs'[self'.path].entries IN
        /\ Len(zf) = 2
        /\ zf[1].name = "archipelago.json"
        /\ zf[1].compress_type = "ZIP_DEFLATED"
        /\ zf[2].name = name
        /\ zf[2].compress_type = "ZIP_STORED"

\* a read() of a delta patch went through: the delta is the data of the
\* entry of the name given
LoadedFrom(file, name) ==
    (/\ last'.op = "read" /\ last'.exc = NoExc
     /\ self.kind \in DeltaKinds
     /\ Read(file)) =>
        LET zf == fs[self'.path].entries IN
        \E i \in 1..Len(zf) : zf[i].name = name /\ self'.delta = zf[i].data

\* C16 as claimed: the delta entry is named delta.bin
C16_DeltaBin ==
    [][\A file \in {None, ZipPath} :
          TwoEntries(file, "delta.bin") /\ LoadedFrom(file, "delta.bin")]_vars

\* C16, amended: the archive of a successful write() of a delta patch has
\* exactly two entries, archipelago.json, deflated, and delta.bsdiff4,
\* stored; read() loads the delta from the entry named delta.bsdiff4.
C16_DeltaBsdiff4 ==
    [][\A file \in {None, ZipPath} :
          /\ TwoEntries(file, "delta.bsdiff4")
          /\ LoadedFrom(file, "delta.bsdiff4")]_vars

\* a delta patch wrote an archive of two entries and its delta was read
\* back from the second one
C16_Witness ==
    /\ last.op = "read"
    /\ last.exc = NoExc
    /\ Produced
    /\ self.kind \in DeltaKinds
    /\ Len(fs[ZipPath].entries) = 2
    /\ fs[ZipPath].entries[2].name = "delta.bsdiff4"
    /\ fs[ZipPath].entries[2].compress_type = "ZIP_STORED"
    /\ self.delta = fs[ZipPath].entries[2].data

C17_Step(file) ==
    (/\ last'.op = "write" /\ last'.exc = NoExc
     /\ self.kind \in DeltaKinds
     /\ Write(file)) =>
        EntryData(fs'[self'.path].entries, DeltaName) =
            Diff(get_source_data(self.kind), fs[self.patched_path].data)

\* C17: the base a class gets from get_source_data_with_cache() is the
\* result of its own get_source_data(), whatever classes were cached
\* before: every delta a write() stores is a diff against the own base of
\* the writer's class.
C17_OwnBase == [][\A file \in {None, ZipPath} : C17_Step(file)]_vars

C18_Step ==
    (last'.op = "patch" /\ PatchCall) =>
        /\ last'.exc # NoExc => fs' = fs
        /\ (self.delta = PyNone /\ self.path = None) =>
              last'.exc.type = "FileNotFoundError"
        /\ (self.delta = PyNone /\ Opens(None)
            /\ Defective(Opened(None), self.kind)) =>
              last'.exc.type = "InvalidDataError"
        /\ (self.delta \notin {PyNone, EmptyBytes}
            /\ self.delta[1] # "BSDIFF40"
            /\ ~GetSourceDataRaises(self.kind)) =>
              (last'.exc.type = "ValueError" /\ last'.exc.cause = NoExc)
        /\ last'.exc = NoExc =>
              [ok |-> TRUE, data |-> fs'[OutPath].data]
                 \in ApplyOutcomes(GetAttr(source_data', self.kind),
                                   self'.delta)

\* C18: a patch() that fails leaves every file, the target included, as it
\* was: with no bound path it fails with the no-path error of read, with
\* an invalid archive with the InvalidDataError of read, and when
\* bsdiff4.patch rejects the delta with the error of bsdiff4.patch itself;
\* a patch() that succeeds has written at the target what bsdiff4.patch
\* returned for the class's base and the instance's delta.
C18_TargetWrittenAfterApply == [][C18_Step]_vars

\* an earlier patch() wrote the target; the delta of the archive, made
\* against another base, is rejected by bsdiff4.patch for this class, and
\* the target is still what it was
C18_Witness ==
    /\ last.op = "patch"
    /\ last.exc.type = "ValueError"
    /\ self.delta[1] = "BSDIFF40"
    /\ self.delta[2] # GetAttr(source_data, self.kind)
    /\ fs[OutPath].kind = "raw"
    /\ fs[OutPath].data = self.delta[3]

C19_Step ==
    (last'.op = "read" /\ last'.exc # NoExc /\ ReadCall) => SameData

\* C19: a read() that fails leaves player, player_name, server and delta of
\* the instance as they were before the call.
C19_FailedReadAtomic == [][C19_Step]_vars

----------------------------------------------------------------------------
(* Thread claims *)

\* the write() of thread t has its archive open: ZipFile(...) has returned
\* and the with block around write_contents is not left yet
ArchiveOpen(t) ==
    /\ th[t].op = "write"
    /\ pc[t] \in {"check", "store", "ret", "close"}

\* C1: the number of write() calls that have their archive open for
\* writing is at most the capacity of the semaphore.
C1_OpenArchivesBounded ==
    Cardinality({t \in Threads : ArchiveOpen(t)}) <= Capacity

\* one processing unit: one write() has its archive open and another
\* waits for the semaphore
C1_Witness ==
    /\ Capacity = 1
    /\ \E t, u \in Threads :
        /\ ArchiveOpen(t)
        /\ pc[u] = "acquire"

\* the derivation counted in nderive belongs to a call for class c that
\* has not stored its result yet
Pending(c) == \E t \in Threads : pc[t] = "store" /\ th[t].kind = c

\* C8 as claimed: get_source_data of a class runs at most once
C8_DerivedAtMostOnce == \A c \in DeltaKinds : nderive[c] <= 1

C8_Step ==
    \A c \in DeltaKinds :
        (source_data[c] # NoAttr /\ ~Pending(c)) => nderive'[c] = nderive[c]

\* C8, amended: once source_data is stored for a class and no call that
\* found it missing is still on its way to store it, get_source_data of
\* the class is not run again.
C8_NoDerivationOnceStored == [][C8_Step]_vars

\* a call for DeltaA ran the derivation and stored its result; a second
\* one, made through write(), found the result stored
C8_Witness ==
    /\ nderive["DeltaA"] = 1
    /\ source_data["DeltaA"] = BaseA
    /\ ncalls = 2
    /\ \E t \in Threads :
        /\ pc[t] = "ret"
        /\ th[t].kind = "DeltaA"
        /\ th[t].op = "write"
        /\ th[t].hit

\* the write() of thread t holds a slot
Holding(t) ==
    /\ th[t].op = "write"
    /\ pc[t] \in {"open", "check", "store", "ret", "close", "release"}

C9_SlotsAccounted ==
    sem = Capacity - Cardinality({t \in Threads : Holding(t)})

C9_ReleasedAtEnd ==
    \A t \in Threads :
        (Holding(t) /\ pc'[t] = "idle") => sem' = sem + 1

C9_WaiterGetsSlot ==
    \A t \in Threads : (pc[t] = "acquire") ~> (pc[t] = "open")

\* C9: the slots taken are exactly those of the write() calls between
\* acquire and release, so all are free when no write() is in progress; a
\* write() that ends, with or without an exception, gives its slot back in
\* the step that ends it; and a write() waiting for a slot gets one.
C9_SlotAlwaysReleased ==
    /\ []C9_SlotsAccounted
    /\ [][C9_ReleasedAtEnd]_vars
    /\ C9_WaiterGetsSlot

\* a write() has ended with an exception raised under the semaphore, no
\* call is in progress and every slot is free
C9_Witness ==
    /\ last.op = "write"
    /\ last.exc.type \in {"OSError", "Exception", "MemoryError",
                          "NotImplementedError"}
    /\ ncalls = 1
    /\ \A t \in Threads : pc[t] = "idle"
    /\ sem = Capacity

\* the slots of the semaphore: the free ones and the ones held
Slots == sem + Cardinality({t \in Threads : Holding(t)})

\* C13 as claimed: the semaphore has at least 4 slots whatever the number of
\* processing units
C13_CapacityAtLeastFour == Slots >= 4

\* C13, amended: the semaphore has as many slots as os.cpu_count() reports
\* processing units, and 4 when it reports none (None).
C13_CapacityIsUnitsOrFour == Slots = IF cpu_count = 0 THEN 4 ELSE cpu_count

\* one processing unit: one write() holds the only slot and another waits
C13_Witness ==
    /\ cpu_count = 1
    /\ sem = 0
    /\ \E t, u \in Threads : Holding(t) /\ pc[u] = "acquire"

=============================================================================
